---- MODULE Spec2Model ----
(***************************************************************************)
(* Forecasting-and-analytics engine of the cafe management dashboard.      *)
(*                                                                         *)
(* The module models the forecasting paths of the repository               *)
(*   - scripts/predict_custom.py   forecast_with_lightgbm,                 *)
(*                                 generate_forecast_only, detect_anomalies*)
(*   - Dataset-creat/train_model.py forecast_next_days                     *)
(*   - scripts/daily_predictions.py load_latest_data, generate_predictions *)
(*   - scripts/predict.py          predict_future, detect_anomalies        *)
(* as a state machine over forecast requests, and the anomaly detectors    *)
(* as pure operators applied by a second specification.                    *)
(*                                                                         *)
(* Numbers.  pandas/numpy floats are modelled as exact rationals <<n, d>>  *)
(* in lowest terms with d > 0; float rounding is outside the model.        *)
(* Dates are day numbers of one non-leap year whose day 1 is a Monday.     *)
(* Only the sales column of a daily record is modelled; the auxiliary      *)
(* orders/items columns are not.                                           *)
(***************************************************************************)
EXTENDS Integers, Sequences, FiniteSets, TLC

VARIABLES series, req, anom, interval, report, training, full, feat

vars == <<series, req, anom, interval, report, training, full, feat>>

(***************************************************************************)
(* Bounds of the model.                                                    *)
(***************************************************************************)
\* longest history drawn by Init (the daily path needs 4 rows: 3 are dropped)
MaxLen == 4
\* largest horizon H a request may ask for
MaxH == 4
\* day number of the first record of the history (26 January)
FirstDay == 26
\* how far the wall clock may be ahead of the last record, in days
MaxClockSkew == 2
\* history length and horizon of the two-request specification
ConcMaxLen == 2
ConcMaxH == 2
\* length of the series handed to the anomaly detectors
AnomMaxLen == 6

\* the sales values a daily record may carry
SalesValues == {0, 10, 40}

(***************************************************************************)
(* Exact rationals.                                                        *)
(***************************************************************************)
Abs(x) == IF x < 0 THEN -x ELSE x

RECURSIVE GCD(_, _)
GCD(a, b) == IF b = 0 THEN a ELSE GCD(b, a % b)

\* n/d in lowest terms, d > 0 (d # 0 required)
Norm(n, d) ==
    LET g == GCD(Abs(n), Abs(d))
        s == IF d < 0 THEN -1 ELSE 1
    IN  <<(s * n) \div g, (s * d) \div g>>

Rat(n) == <<n, 1>>
Zero == Rat(0)
\* the common divisors are taken out before multiplying, so that the products stay
\* within TLC's integers; the values are those of the plain cross-multiplication
RAdd(x, y) ==
    LET g == GCD(x[2], y[2])
    IN  Norm(x[1] * (y[2] \div g) + y[1] * (x[2] \div g), (x[2] \div g) * y[2])
RSub(x, y) ==
    LET g == GCD(x[2], y[2])
    IN  Norm(x[1] * (y[2] \div g) - y[1] * (x[2] \div g), (x[2] \div g) * y[2])
RNeg(x) == <<-x[1], x[2]>>
RMul(x, y) ==
    LET g1 == GCD(Abs(x[1]), y[2])
        g2 == GCD(Abs(y[1]), x[2])
    IN  Norm((x[1] \div g1) * (y[1] \div g2), (x[2] \div g2) * (y[2] \div g1))
\* x / y (y # 0 required)
RDiv(x, y) ==
    LET g1 == GCD(Abs(x[1]), Abs(y[1]))
        g2 == GCD(x[2], y[2])
    IN  Norm((x[1] \div g1) * (y[2] \div g2), (x[2] \div g2) * (y[1] \div g1))
RDivInt(x, k) == Norm(x[1], x[2] * k)
RLess(x, y) == x[1] * y[2] < y[1] * x[2]
RMax(x, y) == IF RLess(x, y) THEN y ELSE x

RECURSIVE RSum(_)
RSum(s) == IF s = <<>> THEN Zero ELSE RAdd(s[1], RSum(Tail(s)))

\* pandas Series.mean() of a non-empty column
Mean(s) == RDivInt(RSum(s), Len(s))

\* pandas Series.tail(w): the last min(w, len) values
TailN(s, w) == IF Len(s) <= w THEN s ELSE SubSeq(s, Len(s) - w + 1, Len(s))

\* s.iloc[-k]  (1 <= k <= Len(s))
FromEnd(s, k) == s[Len(s) - k + 1]

(***************************************************************************)
(* Calendar.                                                               *)
(***************************************************************************)
\* datetime.weekday() / Timestamp.dayofweek: Monday = 0 ... Sunday = 6
Weekday(d) == (d - 1) % 7

MonthLengths == <<31, 28, 31, 30, 31, 30, 31, 31, 30, 31, 30, 31>>

RECURSIVE MonthFrom(_, _)
MonthFrom(d, m) ==
    IF m >= 12 \/ d <= MonthLengths[m] THEN <<m, d>> ELSE MonthFrom(d - MonthLengths[m], m + 1)

\* next_date.month and next_date.day
MonthOf(d) == MonthFrom(d, 1)[1]
DayOfMonth(d) == MonthFrom(d, 1)[2]

(***************************************************************************)
(* The canonical history: the caller's DataFrame, records in date order.   *)
(***************************************************************************)
SalesOf(df) == [k \in 1..Len(df) |-> df[k].total_sales]
LastDate(df) == df[Len(df)].day

\* histories of n consecutive days starting at FirstDay
Histories(n) ==
    { [k \in 1..n |-> [day |-> FirstDay + k - 1, total_sales |-> Rat(f[k])]] : f \in [1..n -> SalesValues] }

(***************************************************************************)
(* Persisted artifacts and the backend.                                    *)
(* A loaded backend is a deterministic, stateless function of the feature  *)
(* vector X: it returns X[1] ("lag1", the stub of the spec's scenario C    *)
(* when the first feature is the lag-1 feature) or -X[1] - 1 ("neg"), and  *)
(* its predict call raises whenever X[1] is one of failOn.                 *)
(***************************************************************************)
Files == {"lightgbm_pkl", "lightgbm_meta", "arima_pkl", "regression_pkl", "tf_model", "scaler_pkl"}

NoBackend == [kind |-> "none", failOn |-> {}]
Backends == { [kind |-> k, failOn |-> f] : k \in {"lag1", "neg"}, f \in {{}, {Rat(1), Rat(10)}} }

\* model.predict(X)[0]: ok = FALSE stands for a raised exception
Predict(b, X) ==
    IF X[1] \in b.failOn THEN [ok |-> FALSE, value |-> Zero]
    ELSE IF b.kind = "lag1" THEN [ok |-> TRUE, value |-> X[1]]
    ELSE [ok |-> TRUE, value |-> RSub(RNeg(X[1]), Rat(1))]

\* feature-name lists a LightGBM metadata file may carry
LgbFeatureLists ==
    { <<"sales_lag_1">>, <<"sales_lag_2">>, <<"sales_lag_3">>, <<"sales_rolling_3">>,
      <<"day_of_week", "sales_lag_1">>, <<"foo">> }

\* feature-name lists a regression artifact may carry
RegFeatureLists ==
    { <<"lag_1_sales">>, <<"rolling_7d_sales_avg">>, <<"day_of_week", "lag_7_sales">>, <<"foo">> }

(***************************************************************************)
(* predict_custom.forecast_with_lightgbm: the feature dictionary of step   *)
(* i (0-based), built from the caller's df and the predictions so far.     *)
(***************************************************************************)
CalendarNames == {"day_of_week", "is_weekend", "day_of_month", "month"}
AuxNames ==
    { "orders_lag_1", "items_lag_1", "orders_lag_2", "items_lag_2", "orders_lag_3", "items_lag_3",
      "orders_rolling_3", "items_rolling_3", "orders_rolling_7", "items_rolling_7" }
SalesNames ==
    { "sales_lag_1", "sales_lag_2", "sales_lag_3", "sales_rolling_3", "sales_rolling_7", "sales_trend" }

\* is_weekend of forecast_with_lightgbm: weekday in [4, 5]
IsWeekendLgb(d) == IF Weekday(d) \in {4, 5} THEN 1 ELSE 0

LgbFeatureValues(df, predictions, i) ==
    LET sales == SalesOf(df)
        n == Len(sales)
        np == Len(predictions)
        historical_mean == Mean(sales)
        next_date == LastDate(df) + i + 1
    IN  [f \in CalendarNames \cup AuxNames \cup SalesNames |->
            CASE f = "day_of_week" -> Rat(Weekday(next_date))
              [] f = "is_weekend" -> Rat(IsWeekendLgb(next_date))
              [] f = "day_of_month" -> Rat(DayOfMonth(next_date))
              [] f = "month" -> Rat(MonthOf(next_date))
              [] f = "sales_lag_1" -> IF i = 0 THEN FromEnd(sales, 1) ELSE predictions[np]
              [] f = "sales_lag_2" ->
                    IF n > 1 /\ i < 2 THEN FromEnd(sales, 2)
                    ELSE IF np > 1 THEN predictions[np - 1] ELSE historical_mean
              [] f = "sales_lag_3" -> IF n > 2 /\ i < 3 THEN FromEnd(sales, 3) ELSE historical_mean
              [] f = "sales_rolling_3" -> Mean(TailN(sales, 3))
              [] f = "sales_rolling_7" -> Mean(TailN(sales, 7))
              [] f = "sales_trend" ->
                    IF n > 1 THEN RDivInt(RSub(sales[n], sales[1]), n - 1) ELSE Zero
              [] OTHER -> Zero]

\* X = [feature_values.get(f, 0) for f in features]
VectorWithDefault(fv, features) ==
    [j \in 1..Len(features) |-> IF features[j] \in DOMAIN fv THEN fv[features[j]] ELSE Zero]

Missing(fv, features) == { j \in 1..Len(features) : features[j] \notin DOMAIN fv }

\* one iteration of the loop of forecast_with_lightgbm on request record q
LgbStep(q, df) ==
    LET i == Len(q.predictions)
        fv == LgbFeatureValues(df, q.predictions, i)
        X == VectorWithDefault(fv, q.features)
        res == Predict(q.backend, X)
        p == IF res.ok THEN RMax(Zero, res.value) ELSE Mean(SalesOf(df))
    IN  [q EXCEPT !.dates = Append(@, LastDate(df) + i + 1),
                  !.X = X,
                  !.substituted = @ \/ Missing(fv, q.features) # {},
                  !.raw = Append(@, IF res.ok THEN res.value ELSE Zero),
                  !.failed = IF res.ok THEN @ ELSE @ \cup {i + 1},
                  !.predictions = Append(@, p),
                  !.pc = IF i + 1 = q.H THEN "done" ELSE "loop"]

(***************************************************************************)
(* train_model.forecast_next_days, regression branch.  The artifact's      *)
(* scaler and model are applied one after the other to the same row; the   *)
(* pair is the backend.                                                    *)
(***************************************************************************)
\* is_weekend of train_model.forecast_next_days: dayofweek >= 4
IsWeekendReg(d) == IF Weekday(d) >= 4 THEN 1 ELSE 0

RegRowNames(feature_cols) ==
    {"day_of_week", "is_weekend"} \cup
    ({"lag_1_sales", "lag_7_sales", "rolling_7d_sales_avg", "rolling_30d_sales_avg"}
        \cap { feature_cols[j] : j \in 1..Len(feature_cols) })

\* the dict `row` built for `date` from the private buffer history_df
RegRow(history_df, date, feature_cols) ==
    [f \in RegRowNames(feature_cols) |->
        CASE f = "day_of_week" -> Rat(Weekday(date))
          [] f = "is_weekend" -> Rat(IsWeekendReg(date))
          [] f = "lag_1_sales" -> FromEnd(history_df, 1)
          [] f = "lag_7_sales" ->
                IF Len(history_df) >= 7 THEN FromEnd(history_df, 7) ELSE Mean(history_df)
          [] f = "rolling_7d_sales_avg" -> Mean(TailN(history_df, 7))
          [] OTHER -> Mean(TailN(history_df, 30))]

\* the caller's df and the buffer after "history_df = pd.concat([history_df, new_row])":
\* concat builds a new frame from the copy, the caller's df is not written
AppendToBufferShared(df, history_df, date, pred) ==
    [df |-> Append(df, [day |-> date, total_sales |-> pred]),
     history_df |-> Append(history_df, pred)]

AppendToBuffer(df, history_df, date, pred) ==
    [df |-> df, history_df |-> Append(history_df, pred)]

\* one iteration of "for date in future_dates" on request record q;
\* returns the request and the caller's df after the iteration
RegStep(q, df) ==
    LET i == Len(q.predictions)
        date == q.dates[i + 1]
        row == RegRow(q.history_df, date, q.features)
        keyError == Missing(row, q.features) # {}
        X == VectorWithDefault(row, q.features)
        res == Predict(q.backend, X)
        after == AppendToBuffer(df, q.history_df, date, res.value)
    IN  IF keyError \/ ~res.ok
        THEN [df |-> df,
              q |-> [q EXCEPT !.pc = "abort",
                              !.X = IF keyError THEN <<>> ELSE X,
                              !.failed = IF keyError THEN @ ELSE @ \cup {i + 1}]]
        ELSE [df |-> after.df,
              q |-> [q EXCEPT !.X = X,
                              !.raw = Append(@, res.value),
                              !.predictions = Append(@, res.value),
                              !.history_df = after.history_df,
                              !.pc = IF i + 1 = q.H THEN "done" ELSE "loop"]]

\* fitted.forecast(steps=days) of statsmodels, outside the repository: modelled as
\* the linear extrapolation last + k * drift, the drift drawn from ArimaDrifts
ArimaDrifts == {0, -25}
ArimaForecast(df, days, drift) ==
    [k \in 1..days |-> RAdd(FromEnd(SalesOf(df), 1), Rat(k * drift))]

(***************************************************************************)
(* daily_predictions.load_latest_data and generate_predictions.            *)
(***************************************************************************)
\* is_weekend of load_latest_data / generate_predictions: dayofweek >= 5
IsWeekendDaily(d) == IF Weekday(d) >= 5 THEN 1 ELSE 0

\* number of rows load_latest_data returns: shift(3) leaves NaN in the first
\* three rows and dropna() removes them
RowsAfterDropna(df) == IF Len(df) > 3 THEN Len(df) - 3 ELSE 0

LastRowNames ==
    CalendarNames \cup
    {"total_sales", "sales_lag_1", "sales_lag_2", "sales_lag_3", "sales_rolling_3", "sales_rolling_7"}

\* df.iloc[-1] of the engineered frame (RowsAfterDropna(df) > 0 required)
LastRow(df) ==
    LET sales == SalesOf(df)
        d == LastDate(df)
    IN  [c \in LastRowNames |->
            CASE c = "day_of_week" -> Rat(Weekday(d))
              [] c = "is_weekend" -> Rat(IsWeekendDaily(d))
              [] c = "day_of_month" -> Rat(DayOfMonth(d))
              [] c = "month" -> Rat(MonthOf(d))
              [] c = "total_sales" -> FromEnd(sales, 1)
              [] c = "sales_lag_1" -> FromEnd(sales, 2)
              [] c = "sales_lag_2" -> FromEnd(sales, 3)
              [] c = "sales_lag_3" -> FromEnd(sales, 4)
              [] c = "sales_rolling_3" -> Mean(TailN(sales, 3))
              [] OTHER -> Mean(TailN(sales, 7))]

\* the dict `features` of step i (1-based): the calendar of next_day, then for every
\* other persisted name the last row's value, or 0 when the last row has no such column
DailyFeatures(df, feature_cols, i) ==
    LET next_day == LastDate(df) + i
        last_row == LastRow(df)
        names == CalendarNames \cup { feature_cols[j] : j \in 1..Len(feature_cols) }
    IN  [f \in names |->
            CASE f = "day_of_week" -> Rat(Weekday(next_day))
              [] f = "day_of_month" -> Rat(DayOfMonth(next_day))
              [] f = "month" -> Rat(MonthOf(next_day))
              [] f = "is_weekend" -> Rat(IsWeekendDaily(next_day))
              [] OTHER -> IF f \in DOMAIN last_row THEN last_row[f] ELSE Zero]

\* one iteration of the loop of generate_predictions on request record q
DailyStep(q, df) ==
    LET i == Len(q.predictions) + 1
        features == DailyFeatures(df, q.features, i)
        X == [j \in 1..Len(q.features) |-> features[q.features[j]]]
        res == Predict(q.backend, X)
    IN  IF ~res.ok
        THEN [q EXCEPT !.pc = "abort", !.X = X, !.failed = @ \cup {i},
                       !.substituted = @ \/ Missing(LastRow(df), q.features) # {}]
        ELSE [q EXCEPT !.dates = Append(@, LastDate(df) + i),
                       !.X = X,
                       !.substituted = @ \/ Missing(LastRow(df), q.features) # {},
                       !.raw = Append(@, res.value),
                       !.predictions = Append(@, res.value),
                       !.pc = IF i = q.H THEN "done" ELSE "loop"]

(***************************************************************************)
(* predict.predict_future: the dates come from datetime.now(), the rows    *)
(* are scaled and predicted in one batch, each result is clamped at 0.     *)
(***************************************************************************)
FutureRow(date) == <<Rat(Weekday(date)), Rat(MonthOf(date)), Rat(DayOfMonth(date))>>

PredictFutureResult(q, today) ==
    LET future_dates == [k \in 1..q.H |-> today + k]
        res == [k \in 1..q.H |-> Predict(q.backend, FutureRow(future_dates[k]))]
    IN  IF \E k \in 1..q.H : ~res[k].ok
        THEN [q EXCEPT !.pc = "abort", !.failed = { k \in 1..q.H : ~res[k].ok }]
        ELSE [q EXCEPT !.dates = future_dates,
                       !.raw = [k \in 1..q.H |-> res[k].value],
                       !.predictions = [k \in 1..q.H |-> RMax(Zero, res[k].value)],
                       !.pc = "done"]

(***************************************************************************)
(* Forecast requests.                                                      *)
(*   pc     idle -> loop | arima | tf -> done | baseline | none | abort    *)
(*   entry  the entry point that serves the request                        *)
(*   used   the backend the entry point selected                           *)
(*   files  the artifact files the entry point found on disk               *)
(*   raw    what the backend returned at each recorded step                *)
(*   X      the feature vector last handed to the backend                  *)
(***************************************************************************)
Requests == {1, 2}

IdleReq ==
    [pc |-> "idle", entry |-> "-", used |-> "-", H |-> 0, files |-> {}, features |-> <<>>,
     backend |-> NoBackend, dates |-> <<>>, predictions |-> <<>>, raw |-> <<>>,
     history_df |-> <<>>, X |-> <<>>, substituted |-> FALSE, failed |-> {}]

IdleAnom ==
    [customRun |-> FALSE, threshold |-> Zero, custom |-> <<>>, legacyRun |-> FALSE, legacy |-> <<>>]

\* historical_std = None: the argument is absent (no rational has denominator 0)
NoStd == <<0, 0>>

\* no confidence interval computed yet
IdleInterval ==
    [run |-> FALSE, predictions |-> <<>>, historical_std |-> NoStd, confidence |-> "0.95",
     margin |-> Zero, lower |-> <<>>, upper |-> <<>>]

\* the result of analyze_seasonal_patterns on an empty frame: {}
NoPatterns ==
    [defined |-> FALSE, weekly_avg |-> <<>>, best_day |-> <<>>, worst_day |-> <<>>,
     weekend_avg |-> Zero, weekday_avg |-> Zero, weekend_boost |-> Zero]

\* no analytics report started yet: whether the receipts carry an expenses column,
\* the seasonal patterns, the most ordered product ("-": no product data) and the
\* recommendation lists of the first and of a repeated invocation
IdleReport ==
    [pc |-> "idle", has_expenses |-> FALSE, patterns |-> NoPatterns, top_product |-> "-",
     recommendations |-> <<>>, again |-> <<>>]

\* no training script started yet
IdleTraining ==
    [script |-> "-", pc |-> "idle", n |-> 0, folds |-> <<>>, fitted_on |-> {},
     artifacts |-> {}, results |-> <<>>, best |-> "-", best_name |-> "-", used |-> "-"]

\* no combined report started yet: the receipts of the data file, whether the
\* LightGBM metadata and the order items are malformed, the artifact files on disk,
\* the sections written to the report so far and what main finally printed
IdleFull ==
    [pc |-> "idle", receipts |-> <<>>, malformed_metadata |-> FALSE, malformed_items |-> FALSE,
     files |-> {}, sections |-> <<>>, anomalies |-> <<>>, patterns |-> NoPatterns,
     top_product |-> "-", recommendations |-> <<>>, output |-> "-"]

\* no feature frame built yet
IdleFeat == [pc |-> "idle", script |-> "-", rows |-> <<>>]

\* load_lightgbm_model: the model and its metadata, or (None, None)
LightgbmLoaded(files) == {"lightgbm_pkl", "lightgbm_meta"} \subseteq files

\* predict_custom.generate_forecast_only up to the call of forecast_with_lightgbm
StartForecastOnly(r) ==
    /\ req[r].pc = "idle"
    /\ \E files \in SUBSET {"lightgbm_pkl", "lightgbm_meta", "arima_pkl"}, H \in 1..MaxH :
          IF LightgbmLoaded(files)
          THEN \E features \in LgbFeatureLists, backend \in Backends :
                  req' = [req EXCEPT ![r] = [IdleReq EXCEPT !.pc = "loop", !.entry = "forecast_only",
                                                !.used = "lightgbm", !.H = H, !.files = files,
                                                !.features = features, !.backend = backend]]
          ELSE req' = [req EXCEPT ![r] = [IdleReq EXCEPT !.pc = "baseline", !.entry = "forecast_only",
                                                !.used = "baseline", !.H = H, !.files = files]]
    /\ UNCHANGED <<series, anom, interval, report, training, full, feat>>

StepLightgbm(r) ==
    /\ req[r].pc = "loop"
    /\ req[r].entry = "forecast_only"
    /\ req' = [req EXCEPT ![r] = LgbStep(req[r], series)]
    /\ UNCHANGED <<series, anom, interval, report, training, full, feat>>

\* train_model.forecast_next_days up to the first iteration of its branch
StartTrainModel(r) ==
    /\ req[r].pc = "idle"
    /\ \E files \in SUBSET {"regression_pkl", "arima_pkl"}, H \in 1..MaxH :
          LET base == [IdleReq EXCEPT !.entry = "train_model", !.H = H, !.files = files,
                                      !.dates = [k \in 1..H |-> LastDate(series) + k]]
          IN  IF "regression_pkl" \in files
              THEN \E features \in RegFeatureLists, backend \in Backends :
                      req' = [req EXCEPT ![r] = [base EXCEPT !.pc = "loop", !.used = "regression",
                                                    !.features = features, !.backend = backend,
                                                    !.history_df = SalesOf(series)]]
              ELSE IF "arima_pkl" \in files
              THEN req' = [req EXCEPT ![r] = [base EXCEPT !.pc = "arima", !.used = "arima"]]
              ELSE req' = [req EXCEPT ![r] = [base EXCEPT !.pc = "none", !.dates = <<>>]]
    /\ UNCHANGED <<series, anom, interval, report, training, full, feat>>

StepRegression(r) ==
    /\ req[r].pc = "loop"
    /\ req[r].entry = "train_model"
    /\ LET out == RegStep(req[r], series)
       IN  /\ req' = [req EXCEPT ![r] = out.q]
           /\ series' = out.df
    /\ UNCHANGED <<anom, interval, report, training, full, feat>>

StepArima(r) ==
    /\ req[r].pc = "arima"
    /\ \E drift \in ArimaDrifts :
          LET fc == ArimaForecast(series, req[r].H, drift)
          IN  req' = [req EXCEPT ![r] = [@ EXCEPT !.pc = "done", !.raw = fc, !.predictions = fc]]
    /\ UNCHANGED <<series, anom, interval, report, training, full, feat>>

\* daily_predictions __main__ up to the loop of generate_predictions
StartDaily(r) ==
    /\ req[r].pc = "idle"
    /\ \E files \in SUBSET {"lightgbm_pkl", "lightgbm_meta"}, H \in 1..MaxH :
          LET base == [IdleReq EXCEPT !.entry = "daily", !.H = H, !.files = files]
          IN  IF ~LightgbmLoaded(files) \/ RowsAfterDropna(series) = 0
              THEN req' = [req EXCEPT ![r] = [base EXCEPT !.pc = "abort"]]
              ELSE \E features \in LgbFeatureLists, backend \in Backends :
                      req' = [req EXCEPT ![r] = [base EXCEPT !.pc = "loop", !.used = "lightgbm",
                                                    !.features = features, !.backend = backend]]
    /\ UNCHANGED <<series, anom, interval, report, training, full, feat>>

StepDaily(r) ==
    /\ req[r].pc = "loop"
    /\ req[r].entry = "daily"
    /\ req' = [req EXCEPT ![r] = DailyStep(req[r], series)]
    /\ UNCHANGED <<series, anom, interval, report, training, full, feat>>

\* predict.generate_report up to the call of predict_future
StartPredict(r) ==
    /\ req[r].pc = "idle"
    /\ \E files \in SUBSET {"tf_model", "scaler_pkl"}, H \in 1..MaxH :
          LET base == [IdleReq EXCEPT !.entry = "predict", !.H = H, !.files = files]
          IN  IF {"tf_model", "scaler_pkl"} \subseteq files
              THEN \E backend \in Backends :
                      req' = [req EXCEPT ![r] = [base EXCEPT !.pc = "tf", !.used = "tf",
                                                    !.backend = backend]]
              ELSE req' = [req EXCEPT ![r] = [base EXCEPT !.pc = "abort"]]
    /\ UNCHANGED <<series, anom, interval, report, training, full, feat>>

PredictFuture(r) ==
    /\ req[r].pc = "tf"
    /\ \E today \in LastDate(series)..(LastDate(series) + MaxClockSkew) :
          req' = [req EXCEPT ![r] = PredictFutureResult(req[r], today)]
    /\ UNCHANGED <<series, anom, interval, report, training, full, feat>>

Init ==
    /\ series \in UNION { Histories(n) : n \in 1..MaxLen }
    /\ req = [r \in Requests |-> IdleReq]
    /\ anom = IdleAnom
    /\ interval = IdleInterval
    /\ report = IdleReport
    /\ training = IdleTraining
    /\ full = IdleFull
    /\ feat = IdleFeat

Next ==
    \/ StartForecastOnly(1)
    \/ StepLightgbm(1)
    \/ StartTrainModel(1)
    \/ StepRegression(1)
    \/ StepArima(1)
    \/ StartDaily(1)
    \/ StepDaily(1)
    \/ StartPredict(1)
    \/ PredictFuture(1)

Spec == Init /\ [][Next]_vars

(***************************************************************************)
(* Claims about the forecasting paths.                                     *)
(***************************************************************************)
HistoricalMean == Mean(SalesOf(series))
LastObserved == FromEnd(SalesOf(series), 1)

\* the buffer the spec prescribes before step i: the history, then predictions 1..i-1
PrescribedBuffer(q, i) == SalesOf(series) \o SubSeq(q.predictions, 1, i - 1)

\* a request whose last loop iteration recorded a point
Recorded(q) == q.pc \in {"loop", "done"} /\ q.predictions # <<>> /\ q.X # <<>>

\* the name of the lag-1 sales feature on the request's path
Lag1Name(q) == IF q.entry = "train_model" THEN "lag_1_sales" ELSE "sales_lag_1"

\* C1: at step 1 the lag-1 sales feature is the last observed value and at every
\* later step i it is the value recorded at step i-1; hence with the stub backend
\* that returns lag_1 every prediction of a finished forecast is the last observed
\* value.
C1_Lag1FollowsPrediction ==
    \A r \in Requests :
        LET q == req[r]
            i == Len(q.predictions)
        IN  (Recorded(q) /\ q.features = <<Lag1Name(q)>>) =>
                /\ q.X[1] = IF i = 1 THEN LastObserved ELSE q.predictions[i - 1]
                /\ (q.backend.kind = "lag1" /\ q.failed = {}) =>
                        \A k \in 1..i : q.predictions[k] = LastObserved

\* C2: a finished forecast holds exactly H points, dated last(S)+1 ... last(S)+H.
C2_HorizonDatesFollowHistory ==
    \A r \in Requests :
        LET q == req[r]
        IN  q.pc = "done" =>
                /\ Len(q.predictions) = q.H
                /\ q.dates = [k \in 1..q.H |-> LastDate(series) + k]

\* C3: every recorded prediction is >= 0 on every path.
C3_PredictionsNonNegative ==
    \A r \in Requests :
        \A k \in 1..Len(req[r].predictions) : ~RLess(req[r].predictions[k], Zero)

\* C4: at every step i each sales lag_k handed to the backend is the value k places
\* from the end of the prescribed buffer (history, then predictions 1..i-1) and each
\* sales rolling_w is the mean of its last min(w, length) values.
C4_FeaturesReadFromBuffer ==
    \A r \in Requests :
        LET q == req[r]
            i == Len(q.predictions)
            buffer == PrescribedBuffer(q, i)
            lagOf == [f \in {"sales_lag_1", "sales_lag_2", "sales_lag_3"} |->
                        IF f = "sales_lag_1" THEN 1 ELSE IF f = "sales_lag_2" THEN 2 ELSE 3]
            winOf == [f \in {"sales_rolling_3", "sales_rolling_7"} |->
                        IF f = "sales_rolling_3" THEN 3 ELSE 7]
        IN  (Recorded(q) /\ q.entry \in {"forecast_only", "daily"}) =>
                \A j \in 1..Len(q.features) :
                    /\ (q.features[j] \in DOMAIN lagOf /\ lagOf[q.features[j]] <= Len(buffer)) =>
                            q.X[j] = FromEnd(buffer, lagOf[q.features[j]])
                    /\ q.features[j] \in DOMAIN winOf =>
                            q.X[j] = Mean(TailN(buffer, winOf[q.features[j]]))

\* C5: no forecast is ever computed from a vector in which a persisted feature name
\* that the feature builder does not produce was filled with a default.
C5_MissingFeatureNeverDefaulted ==
    \A r \in Requests : ~req[r].substituted

\* C6: when predict fails at step i the forecast is not aborted and the value
\* recorded for step i is the historical mean of the series.
C6_PredictFailureFallsBackToMean ==
    \A r \in Requests :
        LET q == req[r]
        IN  q.failed # {} =>
                /\ q.pc # "abort"
                /\ \A i \in q.failed :
                        i <= Len(q.predictions) /\ q.predictions[i] = HistoricalMean

\* the backend the declared chain selects for the files on disk
ChainChoice(q) ==
    LET tree == IF q.entry = "train_model" THEN "regression_pkl" ELSE "lightgbm_pkl"
        meta == IF q.entry = "train_model" THEN {} ELSE {"lightgbm_meta"}
    IN  IF {tree} \cup meta \subseteq q.files
        THEN (IF q.entry = "train_model" THEN "regression" ELSE "lightgbm")
        ELSE IF "arima_pkl" \in q.files THEN "arima" ELSE "baseline"

\* C7: with an artifact missing, inference walks tree-ensemble, autoregressive,
\* historical-mean baseline in that order and always ends with a forecast.
C7_FallbackChainNeverAborts ==
    \A r \in Requests :
        LET q == req[r]
        IN  (q.pc # "idle" /\ q.entry \in {"forecast_only", "train_model"}) =>
                /\ q.used = ChainChoice(q)
                /\ q.pc \in {"loop", "arima", "done", "baseline"}

\* C8: no step of any forecast changes the caller's historical series.
C8_HistoryUnchanged == [][series' = series]_vars

\* a regression forecast ran to its end: the private buffer grew by H predictions
C8_Witness ==
    \E r \in Requests :
        /\ req[r].pc = "done"
        /\ req[r].used = "regression"
        /\ req[r].H > 1
        /\ Len(req[r].history_df) = Len(series) + req[r].H

(***************************************************************************)
(* Two forecast requests against the same loaded history and the same      *)
(* loaded backend, their loop iterations interleaved.                      *)
(***************************************************************************)
SameBackendAsOthers(r, entry, features, backend) ==
    \A o \in Requests \ {r} :
        req[o].pc # "idle" =>
            req[o].entry = entry /\ req[o].features = features /\ req[o].backend = backend

\* a call of forecast_with_lightgbm(model, metadata, df, days = H) with the loaded model
StartConcLightgbm(r) ==
    /\ req[r].pc = "idle"
    /\ \E H \in 1..ConcMaxH, features \in LgbFeatureLists, backend \in Backends :
          /\ SameBackendAsOthers(r, "forecast_only", features, backend)
          /\ req' = [req EXCEPT ![r] = [IdleReq EXCEPT !.pc = "loop", !.entry = "forecast_only",
                                            !.used = "lightgbm", !.H = H,
                                            !.files = {"lightgbm_pkl", "lightgbm_meta"},
                                            !.features = features, !.backend = backend]]
    /\ UNCHANGED <<series, anom, interval, report, training, full, feat>>

\* a call of forecast_next_days(df, days = H) with the regression artifact on disk
StartConcRegression(r) ==
    /\ req[r].pc = "idle"
    /\ \E H \in 1..ConcMaxH, features \in RegFeatureLists, backend \in Backends :
          /\ SameBackendAsOthers(r, "train_model", features, backend)
          /\ req' = [req EXCEPT ![r] = [IdleReq EXCEPT !.pc = "loop", !.entry = "train_model",
                                            !.used = "regression", !.H = H,
                                            !.files = {"regression_pkl"},
                                            !.dates = [k \in 1..H |-> LastDate(series) + k],
                                            !.features = features, !.backend = backend,
                                            !.history_df = SalesOf(series)]]
    /\ UNCHANGED <<series, anom, interval, report, training, full, feat>>

InitConc ==
    /\ series \in UNION { Histories(n) : n \in 1..ConcMaxLen }
    /\ req = [r \in Requests |-> IdleReq]
    /\ anom = IdleAnom
    /\ interval = IdleInterval
    /\ report = IdleReport
    /\ training = IdleTraining
    /\ full = IdleFull
    /\ feat = IdleFeat

NextConc ==
    \E r \in Requests :
        \/ StartConcLightgbm(r)
        \/ StepLightgbm(r)
        \/ StartConcRegression(r)
        \/ StepRegression(r)

SpecConc == InitConc /\ [][NextConc]_vars

\* the record a request of q's entry, horizon and backend starts its loop with
StartRecord(q) ==
    [IdleReq EXCEPT !.pc = "loop", !.entry = q.entry, !.used = q.used, !.H = q.H,
                    !.files = q.files, !.features = q.features, !.backend = q.backend,
                    !.dates = IF q.entry = "train_model"
                              THEN [k \in 1..q.H |-> LastDate(series) + k] ELSE <<>>,
                    !.history_df = IF q.entry = "train_model" THEN SalesOf(series) ELSE <<>>]

\* the request run to its end with nothing else running
RECURSIVE RunAlone(_)
RunAlone(q) ==
    IF q.pc # "loop" THEN q
    ELSE IF q.entry = "train_model" THEN RunAlone(RegStep(q, series).q)
    ELSE RunAlone(LgbStep(q, series))

Outcome(q) == <<q.pc, q.dates, q.predictions>>

\* C9: under every interleaving a request that has ended holds exactly the outcome
\* it has when run alone on the same history and backend, and two ended requests
\* with the same horizon hold the same outcome whichever started or ended first.
C9_RequestsIndependent ==
    /\ \A r \in Requests :
          req[r].pc \in {"done", "abort"} =>
              Outcome(req[r]) = Outcome(RunAlone(StartRecord(req[r])))
    /\ \A r1, r2 \in Requests :
          (req[r1].pc \in {"done", "abort"} /\ req[r2].pc \in {"done", "abort"}
              /\ req[r1].H = req[r2].H) => Outcome(req[r1]) = Outcome(req[r2])

\* one request has returned its points while the other is in the middle of its loop
C9_Witness ==
    /\ req[1].pc = "loop"
    /\ Len(req[1].predictions) >= 1
    /\ req[2].pc = "done"
    /\ Len(req[2].predictions) = req[2].H

(***************************************************************************)
(* Anomaly detection over the loaded series.                               *)
(* A z-score is an irrational number in general; a flagged row carries its *)
(* square z_sq and its sign instead.                                       *)
(***************************************************************************)
\* thresholds a caller may pass to predict_custom.detect_anomalies (default 2.0)
Thresholds == {Rat(2), <<3, 2>>}

\* fixed multiple of sigma of predict.detect_anomalies: 1.5
LegacyThreshold == <<3, 2>>

SquaredDeviations(values) ==
    LET mean == Mean(values)
        deviation == [k \in 1..Len(values) |-> RSub(values[k], mean)]
    IN  [k \in 1..Len(values) |-> RMul(deviation[k], deviation[k])]

PopulationVariance(values) == RDivInt(RSum(SquaredDeviations(values)), Len(values))

\* square of pandas Series.std(): the divisor is n - 1 (Len(values) >= 2 required)
SampleVariance(values) == RDivInt(RSum(SquaredDeviations(values)), Len(values) - 1)

\* a frame filtered with the negated mask: the rows whose flag is not set
RECURSIVE RejectRows(_, _)
RejectRows(rows, keep) ==
    IF rows = <<>> THEN <<>>
    ELSE (IF keep[1] THEN <<>> ELSE <<rows[1]>>) \o RejectRows(Tail(rows), Tail(keep))

\* a frame returned without the is_anomaly filter
KeepAllRows(rows, keep) == rows

\* df_copy[df_copy['is_anomaly']]: the rows whose flag is set, in their order
RECURSIVE SelectRows(_, _)
SelectRows(rows, keep) ==
    IF rows = <<>> THEN <<>>
    ELSE (IF keep[1] THEN <<rows[1]>> ELSE <<>>) \o SelectRows(Tail(rows), Tail(keep))

\* predict_custom.detect_anomalies, each returned row labelled as its callers label it
\* (z > 0: spike, otherwise drop).  With one row std() is NaN: std == 0 is false and
\* every comparison abs(z) > threshold is false.
DetectAnomaliesCustom(df, threshold) ==
    LET values == SalesOf(df)
        n == Len(values)
        mean == Mean(values)
    IN  IF n = 0 \/ n = 1 THEN <<>>
        ELSE LET variance == SampleVariance(values)
                 squared == SquaredDeviations(values)
                 zsq == [k \in 1..n |->
                            IF variance = Zero THEN Zero
                            ELSE RDiv(squared[k], variance)]
                 rows == [k \in 1..n |->
                            [day |-> df[k].day, value |-> values[k], z_sq |-> zsq[k],
                             direction |-> IF RLess(mean, values[k]) THEN "spike" ELSE "drop"]]
                 is_anomaly == [k \in 1..n |-> RLess(RMul(threshold, threshold), zsq[k])]
             IN  IF variance = Zero THEN <<>> ELSE SelectRows(rows, is_anomaly)

\* predict.detect_anomalies on a frame with one receipt per day (the grouping by
\* date then sums single rows): at least 5 rows, 1.5 sigma, the last three flagged
DetectAnomaliesLegacy(df) ==
    LET values == SalesOf(df)
        n == Len(values)
        mean == Mean(values)
    IN  IF n < 5 THEN <<>>
        ELSE LET variance == SampleVariance(values)
                 squared == SquaredDeviations(values)
                 rows == [k \in 1..n |->
                            [day |-> df[k].day, value |-> values[k],
                             direction |-> IF RLess(mean, values[k]) THEN "spike" ELSE "drop"]]
                 flagged == [k \in 1..n |->
                            RLess(RMul(RMul(LegacyThreshold, LegacyThreshold), variance),
                                  squared[k])]
             IN  TailN(SelectRows(rows, flagged), 3)

DetectCustom ==
    /\ ~anom.customRun
    /\ \E threshold \in Thresholds :
          anom' = [anom EXCEPT !.customRun = TRUE, !.threshold = threshold,
                               !.custom = DetectAnomaliesCustom(series, threshold)]
    /\ UNCHANGED <<series, req, interval, report, training, full, feat>>

DetectLegacy ==
    /\ ~anom.legacyRun
    /\ anom' = [anom EXCEPT !.legacyRun = TRUE, !.legacy = DetectAnomaliesLegacy(series)]
    /\ UNCHANGED <<series, req, interval, report, training, full, feat>>

InitAnomaly ==
    /\ series \in UNION { Histories(n) : n \in 1..AnomMaxLen }
    /\ req = [r \in Requests |-> IdleReq]
    /\ anom = IdleAnom
    /\ interval = IdleInterval
    /\ report = IdleReport
    /\ training = IdleTraining
    /\ full = IdleFull
    /\ feat = IdleFeat

NextAnomaly == DetectCustom \/ DetectLegacy

SpecAnomaly == InitAnomaly /\ [][NextAnomaly]_vars

\* integer form of the detectors' rule: with n values v of sum S and D(k) = n*v[k] - S,
\* (v[k] - mean)^2 / variance > T^2  iff  D(k)^2 * divisor > T^2 * sum of D(j)^2,
\* where divisor is n for the population variance and n - 1 for the sample variance
SalesInt(k) == series[k].total_sales[1]

RECURSIVE SumTo(_, _)
SumTo(f, n) == IF n = 0 THEN 0 ELSE f[n] + SumTo(f, n - 1)

ScaledDev(k) == Len(series) * SalesInt(k) - SumTo([j \in 1..Len(series) |-> SalesInt(j)], Len(series))

SumSqScaledDev == SumTo([j \in 1..Len(series) |-> ScaledDev(j) * ScaledDev(j)], Len(series))

Exceeds(k, T, divisor) ==
    T[2] * T[2] * ScaledDev(k) * ScaledDev(k) * divisor > T[1] * T[1] * SumSqScaledDev

DaysOf(rows) == { rows[j].day : j \in 1..Len(rows) }

DirectionsRight(rows) ==
    \A j \in 1..Len(rows) :
        LET k == rows[j].day - FirstDay + 1
        IN  /\ rows[j].value = series[k].total_sales
            /\ rows[j].direction = IF ScaledDev(k) > 0 THEN "spike" ELSE "drop"

AllIdentical == \A i, j \in 1..Len(series) : series[i].total_sales = series[j].total_sales

\* C11: on a series of any length >= 1 whose values are all identical the anomaly
\* detector returns an empty result (the detectors are total: no input of the model
\* makes them fail).
C11_ConstantSeriesNoAnomalies ==
    /\ (anom.customRun /\ AllIdentical) => anom.custom = <<>>
    /\ (anom.legacyRun /\ AllIdentical) => anom.legacy = <<>>

\* both detectors ran on a constant non-zero series of the largest length
C11_Witness ==
    /\ anom.customRun
    /\ anom.legacyRun
    /\ AllIdentical
    /\ Len(series) = AnomMaxLen
    /\ series[1].total_sales # Zero
    /\ anom.custom = <<>>

(***************************************************************************)
(* Confidence intervals: predict_custom.calculate_confidence_interval      *)
(* applied to a vector of predictions.  Its callers pass the predicted     *)
(* sales of forecast_with_lightgbm, which are clamped at 0, and a          *)
(* dispersion that is a standard deviation.                                *)
(***************************************************************************)
\* longest vector of predictions handed to the estimator
MaxPredictions == 3

\* the clamped predictions a forecast can hold
PredictionValues == { Rat(v) : v \in SalesValues }

PredictionVectors == UNION { [1..n -> PredictionValues] : n \in 1..MaxPredictions }

\* the historical_std argument: absent, or a standard deviation
HistoricalStds == {NoStd, Zero, <<1, 2>>, Rat(5), Rat(30)}

ConfidenceLevels == {"0.95", "0.90"}

\* z_score = 1.96 if confidence == 0.95 else 1.645
ZScore(confidence) == IF confidence = "0.95" THEN <<49, 25>> ELSE <<329, 200>>

HasIntSqrt(n) == \E k \in 0..n : k * k = n
IntSqrt(n) == CHOOSE k \in 0..n : k * k = n

\* the rationals whose square root is a rational
HasRSqrt(x) == x[1] >= 0 /\ HasIntSqrt(x[1]) /\ HasIntSqrt(x[2])
RSqrt(x) == <<IntSqrt(x[1]), IntSqrt(x[2])>>

\* np.std(predictions): the divisor is the number of predictions
NpStd(predictions) ==
    RSqrt(RDivInt(RSum(SquaredDeviations(predictions)), Len(predictions)))

\* a dispersion that falls back to 15% of the mean whatever the number of predictions
DispersionFifteenPercent(predictions, historical_std) ==
    IF historical_std = NoStd THEN RMul(Mean(predictions), <<3, 20>>) ELSE historical_std

\* the std chosen by "if historical_std is None ... else ..."
Dispersion(predictions, historical_std) ==
    IF historical_std = NoStd
    THEN IF Len(predictions) > 1 THEN NpStd(predictions)
         ELSE RMul(Mean(predictions), <<3, 20>>)
    ELSE historical_std

LowerBoundUnclamped(p, margin) == RSub(p, margin)

\* np.maximum(predictions - margin, 0), one component
LowerBound(p, margin) == RMax(RSub(p, margin), Zero)

CalculateConfidenceInterval(predictions, historical_std, confidence) ==
    LET std == Dispersion(predictions, historical_std)
        margin == RMul(ZScore(confidence), std)
    IN  [margin |-> margin,
         lower |-> [k \in 1..Len(predictions) |-> LowerBound(predictions[k], margin)],
         upper |-> [k \in 1..Len(predictions) |-> RAdd(predictions[k], margin)]]

\* the inputs of one call; np.std of the predictions is kept exact by drawing, for an
\* absent historical_std, the vectors whose variance has a rational square root
IntervalInputs ==
    { [IdleInterval EXCEPT !.predictions = p, !.historical_std = s, !.confidence = c] :
        p \in PredictionVectors, s \in HistoricalStds, c \in ConfidenceLevels }

InitInterval ==
    /\ series = <<>>
    /\ req = [r \in Requests |-> IdleReq]
    /\ anom = IdleAnom
    /\ interval \in { q \in IntervalInputs :
                        (q.historical_std = NoStd /\ Len(q.predictions) > 1) =>
                            HasRSqrt(RDivInt(RSum(SquaredDeviations(q.predictions)),
                                             Len(q.predictions))) }
    /\ report = IdleReport
    /\ training = IdleTraining
    /\ full = IdleFull
    /\ feat = IdleFeat

ConfidenceInterval ==
    /\ ~interval.run
    /\ LET ci == CalculateConfidenceInterval(interval.predictions, interval.historical_std,
                                             interval.confidence)
       IN  interval' = [interval EXCEPT !.run = TRUE, !.margin = ci.margin,
                                        !.lower = ci.lower, !.upper = ci.upper]
    /\ UNCHANGED <<series, req, anom, report, training, full, feat>>

NextInterval == ConfidenceInterval

SpecInterval == InitInterval /\ [][NextInterval]_vars

\* x <= y on rationals
RLeq(x, y) == ~RLess(y, x)

MaxRecords == 12

\* validation errors a candidate can score
MaeValues == {50, 80}
MapeValues == {5, 9}

\* rows left by dropna() after the lag features: lag_3 in train_lightgbm, lag_7 in
\* train_regression
RowsLightgbm(n) == 4..n
RowsRegression(n) == 8..n

\* the k-th row (k >= 1) of a frame whose rows are the records lo..n
\* TimeSeriesSplit(n_splits=5).split(X) on m rows: test_size = m // 6, fold i
\* (1..5) trains on the rows before test_start and tests on the next test_size rows
TimeSeriesSplit(rows, i) ==
    LET m == Cardinality(rows)
        lo == CHOOSE r \in rows : \A x \in rows : r <= x
        test_size == m \div 6
        test_start == m - 5 * test_size + (i - 1) * test_size
    IN  [train |-> { r \in rows : r - lo < test_start },
         test |-> { r \in rows : r - lo >= test_start /\ r - lo < test_start + test_size }]

\* "train_size = len(df) - 3": the last three rows are held out
HoldOutLastThree(rows) ==
    LET hi == CHOOSE r \in rows : \A x \in rows : x <= r
    IN  [train |-> { r \in rows : r <= hi - 3 }, test |-> { r \in rows : r > hi - 3 }]

\* train_test_split(X, y, test_size=0.2, random_state=42): a shuffled split, the test
\* part holds ceil(0.2 * n) rows picked by the seeded permutation, not by date
ShuffledSplits(rows) ==
    LET m == Cardinality(rows)
        n_test == (m + 4) \div 5
    IN  { [train |-> rows \ t, test |-> t] : t \in { s \in SUBSET rows : Cardinality(s) = n_test } }

\* the candidates of train_regression in the order of the models dict
RegressionModels == <<"Ridge", "RandomForest", "GradientBoosting">>

\* "for name, model in models.items()": keep the candidate whose mae is strictly
\* below the best one so far (best_mae starts at infinity, best.name at "-")
RECURSIVE ScanModels(_, _, _)
ScanModels(maes, k, best) ==
    IF k > Len(maes) THEN best
    ELSE ScanModels(maes, k + 1,
                    IF best.name = "-" \/ maes[k] < best.mae
                    THEN [name |-> RegressionModels[k], mae |-> maes[k]]
                    ELSE best)

\* "comparison.sort_values('mape')" then "comparison.index[0]": the result with the
\* smallest mape; the sort of at most three rows is an insertion sort, which keeps
\* the rows of equal mape in the order of the results dict
BestByMape(results) ==
    results[CHOOSE j \in 1..Len(results) :
               /\ \A i \in 1..Len(results) : results[j].mape <= results[i].mape
               /\ \A i \in 1..(j - 1) : results[i].mape > results[j].mape].name

\* forecast_next_days: the regression artifact if it exists, else the ARIMA one
BackendOfForecast(artifacts) ==
    IF \E a \in artifacts : a.file = "regression_model.pkl" THEN "Regression"
    ELSE IF \E a \in artifacts : a.file = "arima_model.pkl" THEN "ARIMA"
    ELSE "none"

Artifact(file, fitted_on, rows) == [file |-> file, fitted_on |-> fitted_on, rows |-> rows]

\* train_lightgbm.py __main__ up to the start of the cross-validation; with fewer
\* than 6 rows TimeSeriesSplit raises
StartTrainLightgbm ==
    /\ training.pc = "idle"
    /\ \E n \in 1..MaxRecords :
          training' = [training EXCEPT !.script = "train_lightgbm", !.n = n,
                          !.pc = IF Cardinality(RowsLightgbm(n)) < 6 THEN "abort" ELSE "cv"]
    /\ UNCHANGED <<series, req, anom, interval, report, full, feat>>

\* one iteration of "for fold, (train_idx, test_idx) in enumerate(tscv.split(X), 1)"
CrossValidateFold ==
    /\ training.script = "train_lightgbm"
    /\ training.pc = "cv"
    /\ LET split == TimeSeriesSplit(RowsLightgbm(training.n), Len(training.folds) + 1)
       IN  training' = [training EXCEPT !.folds = Append(@, split),
                           !.fitted_on = split.train,
                           !.pc = IF Len(training.folds) + 1 = 5 THEN "final_fit" ELSE "cv"]
    /\ UNCHANGED <<series, req, anom, interval, report, full, feat>>

\* "model.fit(X, y)" after the folds
FinalFitLightgbm ==
    /\ training.script = "train_lightgbm"
    /\ training.pc = "final_fit"
    /\ training' = [training EXCEPT !.fitted_on = RowsLightgbm(training.n), !.pc = "save"]
    /\ UNCHANGED <<series, req, anom, interval, report, full, feat>>

\* save_model: joblib.dump(model, model_path)
SaveLightgbm ==
    /\ training.script = "train_lightgbm"
    /\ training.pc = "save"
    /\ training' = [training EXCEPT
                       !.artifacts = @ \cup {Artifact("lightgbm_sales_model.pkl", training.fitted_on,
                                                      RowsLightgbm(training.n))},
                       !.used = "LightGBM", !.pc = "done"]
    /\ UNCHANGED <<series, req, anom, interval, report, full, feat>>

\* legacy_train_model.train: fewer than 10 records train and test on all of them,
\* otherwise a shuffled 80/20 split; the forest fitted on X_train is dumped
LegacyTrain ==
    /\ training.pc = "idle"
    /\ \E n \in 1..MaxRecords :
          \E split \in (IF n < 10 THEN {[train |-> 1..n, test |-> 1..n]}
                        ELSE ShuffledSplits(1..n)) :
              training' = [training EXCEPT !.script = "legacy_train_model", !.n = n,
                              !.folds = <<split>>, !.fitted_on = split.train,
                              !.artifacts = {Artifact("model.pkl", split.train, 1..n)},
                              !.used = "RandomForest", !.pc = "done"]
    /\ UNCHANGED <<series, req, anom, interval, report, full, feat>>

\* train_model.main up to the first trainer: fewer than 10 days end the run
StartTrainModelMain ==
    /\ training.pc = "idle"
    /\ \E n \in 9..MaxRecords :
          training' = [training EXCEPT !.script = "train_model", !.n = n,
                          !.pc = IF n < 10 THEN "done" ELSE "arima"]
    /\ UNCHANGED <<series, req, anom, interval, report, full, feat>>

\* train_arima: skipped when statsmodels is missing; the order search fits on the
\* training part only and that fitted model is pickled
TrainArima ==
    /\ training.script = "train_model"
    /\ training.pc = "arima"
    /\ \/ training' = [training EXCEPT !.pc = "regression"]
       \/ \E mae \in MaeValues, mape \in MapeValues :
             LET split == HoldOutLastThree(1..training.n)
             IN  training' = [training EXCEPT
                     !.folds = Append(@, split), !.fitted_on = split.train,
                     !.artifacts = @ \cup {Artifact("arima_model.pkl", split.train, 1..training.n)},
                     !.results = Append(@, [name |-> "ARIMA", mae |-> mae, mape |-> mape]),
                     !.pc = "regression"]
    /\ UNCHANGED <<series, req, anom, interval, report, full, feat>>

\* train_regression: with no training row left the scaler raises; otherwise the three
\* candidates are fitted on the training part, the one of smallest mae is kept and
\* pickled as it is
TrainRegression ==
    /\ training.script = "train_model"
    /\ training.pc = "regression"
    /\ LET split == HoldOutLastThree(RowsRegression(training.n))
       IN  IF split.train = {}
           THEN training' = [training EXCEPT !.pc = "abort"]
           ELSE \E maes \in [1..Len(RegressionModels) -> MaeValues], mape \in MapeValues :
                   LET best == ScanModels(maes, 1, [name |-> "-", mae |-> 0])
                   IN  training' = [training EXCEPT
                           !.folds = Append(@, split), !.fitted_on = split.train,
                           !.best_name = best.name,
                           !.artifacts = @ \cup {Artifact("regression_model.pkl", split.train,
                                                          RowsRegression(training.n))},
                           !.results = Append(@, [name |-> "Regression", mae |-> best.mae,
                                                  mape |-> mape]),
                           !.pc = "prophet"]
    /\ UNCHANGED <<series, req, anom, interval, report, full, feat>>

\* train_prophet: skipped when prophet is missing; fitted on the training part
TrainProphet ==
    /\ training.script = "train_model"
    /\ training.pc = "prophet"
    /\ \/ training' = [training EXCEPT !.pc = "summary"]
       \/ \E mae \in MaeValues, mape \in MapeValues :
             LET split == HoldOutLastThree(1..training.n)
             IN  training' = [training EXCEPT
                     !.folds = Append(@, split), !.fitted_on = split.train,
                     !.artifacts = @ \cup {Artifact("prophet_model.pkl", split.train, 1..training.n)},
                     !.results = Append(@, [name |-> "Prophet", mae |-> mae, mape |-> mape]),
                     !.pc = "summary"]
    /\ UNCHANGED <<series, req, anom, interval, report, full, feat>>

\* the model comparison of main and the forecast that follows it
CompareAndForecast ==
    /\ training.script = "train_model"
    /\ training.pc = "summary"
    /\ training' = [training EXCEPT
                       !.best = IF training.results = <<>> THEN "-"
                                ELSE BestByMape(training.results),
                       !.used = BackendOfForecast(training.artifacts), !.pc = "done"]
    /\ UNCHANGED <<series, req, anom, interval, report, full, feat>>

InitTraining ==
    /\ series = <<>>
    /\ req = [r \in Requests |-> IdleReq]
    /\ anom = IdleAnom
    /\ interval = IdleInterval
    /\ report = IdleReport
    /\ training = IdleTraining
    /\ full = IdleFull
    /\ feat = IdleFeat

NextTraining ==
    \/ StartTrainLightgbm
    \/ CrossValidateFold
    \/ FinalFitLightgbm
    \/ SaveLightgbm
    \/ LegacyTrain
    \/ StartTrainModelMain
    \/ TrainArima
    \/ TrainRegression
    \/ TrainProphet
    \/ CompareAndForecast

SpecTraining == InitTraining /\ [][NextTraining]_vars

\* the result of smallest mae, the earliest registered one on a tie
MinMaeFirst(results) ==
    results[CHOOSE j \in 1..Len(results) :
               /\ \A i \in 1..Len(results) : results[j].mae <= results[i].mae
               /\ \A i \in 1..(j - 1) : results[i].mae > results[j].mae].name

\* C13: among the candidate backends evaluated in one training run the one reported
\* as best and used for the subsequent forecast is the one with the smallest
\* validation MAE, the earlier registered one when two MAEs are equal.
C13_SelectedHasSmallestMae ==
    (training.script = "train_model" /\ training.pc = "done" /\ training.results # <<>>) =>
        /\ training.best = MinMaeFirst(training.results)
        /\ training.used = training.best

\* C14: in every validation split every test record is strictly later than every
\* training record, the training part is a prefix of the chronologically ordered
\* rows of the split, and the training parts of the successive folds of one
\* cross-validation grow.
C14_SplitsChronological ==
    /\ \A k \in 1..Len(training.folds) :
          LET f == training.folds[k]
          IN  /\ \A r \in f.train, t \in f.test : r < t
              /\ \A r \in f.train, x \in f.train \cup f.test : x < r => x \in f.train
    /\ training.script = "train_lightgbm" =>
          \A k \in 1..(Len(training.folds) - 1) :
              training.folds[k].train \subseteq training.folds[k + 1].train

\* C15: the model object written to every persisted artifact was last fitted on
\* all the rows available to its trainer, the held-out ones included.
C15_PersistedModelFittedOnFullHistory ==
    \A a \in training.artifacts : a.fitted_on = a.rows

(***************************************************************************)
(* The recommendations report of predict_custom.py: prepare_sales_df,      *)
(* analyze_seasonal_patterns, analyze_products, generate_recommendations.  *)
(* A recommendation is its kind and the day or product it names.           *)
(***************************************************************************)
\* longest series handed to the report
MaxReportLen == 15

\* total_expenses of a day, when the receipts carry the column
ExpenseValues == {5, 7, 20}

\* the most ordered product found by analyze_products ("-": none)
TopProducts == {"-", "latte"}

\* series of n days made of three runs of equal sales, with or without expenses
ReportFrames(n) ==
    { [k \in 1..n |-> [day |-> FirstDay + k - 1,
                       total_sales |-> Rat(IF k <= s1 THEN a ELSE IF k <= s2 THEN b ELSE c),
                       total_expenses |-> Rat(e)]] :
        s1 \in 0..n, s2 \in 0..n, a \in SalesValues, b \in SalesValues, c \in SalesValues,
        e \in ExpenseValues }

DayNames == <<"Monday", "Tuesday", "Wednesday", "Thursday", "Friday", "Saturday", "Sunday">>
DayName(w) == DayNames[w + 1]

\* groupby('day_name') sorts its keys: the weekday indices in the alphabetical order
\* of their English names
AlphabeticalDays == <<4, 0, 5, 6, 3, 1, 2>>

RowsOfWeekdays(df, days) == SelectSeq(df, LAMBDA row : Weekday(row.day) \in days)

\* weekly_avg.items(): (day_name, mean) for the weekdays present, in groupby order
WeeklyAvgItems(df) ==
    LET present == SelectSeq(AlphabeticalDays, LAMBDA w : RowsOfWeekdays(df, {w}) # <<>>)
    IN  [k \in 1..Len(present) |->
            [name |-> DayName(present[k]), mean |-> Mean(SalesOf(RowsOfWeekdays(df, {present[k]})))]]

\* max(items, key=lambda x: x[1]): the first item whose mean no later item exceeds
\* strictly
RECURSIVE MaxItem(_, _, _)
MaxItem(items, k, best) ==
    IF k > Len(items) THEN best
    ELSE MaxItem(items, k + 1, IF RLess(best.mean, items[k].mean) THEN items[k] ELSE best)

RECURSIVE MinItem(_, _, _)
MinItem(items, k, best) ==
    IF k > Len(items) THEN best
    ELSE MinItem(items, k + 1, IF RLess(items[k].mean, best.mean) THEN items[k] ELSE best)

\* analyze_seasonal_patterns
AnalyzeSeasonalPatterns(df) ==
    IF df = <<>> THEN NoPatterns
    ELSE LET items == WeeklyAvgItems(df)
             weekend == RowsOfWeekdays(df, {4, 5})
             weekdays == RowsOfWeekdays(df, (0..6) \ {4, 5})
             weekend_avg == IF weekend # <<>> THEN Mean(SalesOf(weekend)) ELSE Zero
             weekday_avg == IF weekdays # <<>> THEN Mean(SalesOf(weekdays)) ELSE Zero
         IN  [defined |-> TRUE,
              weekly_avg |-> items,
              best_day |-> MaxItem(items, 2, items[1]),
              worst_day |-> MinItem(items, 2, items[1]),
              weekend_avg |-> weekend_avg,
              weekday_avg |-> weekday_avg,
              weekend_boost |-> IF RLess(Zero, weekday_avg)
                                THEN RMul(RDiv(RSub(weekend_avg, weekday_avg), weekday_avg), Rat(100))
                                ELSE Zero]

Recommendation(kind, subject) == [kind |-> kind, subject |-> subject]

\* 1. the weekend rule and the best-day rule, both under "if patterns:"
WeekendRule(patterns) ==
    IF ~patterns.defined THEN <<>>
    ELSE IF RLess(Rat(20), patterns.weekend_boost) THEN <<Recommendation("high_weekend_demand", "-")>>
    ELSE IF RLess(patterns.weekend_boost, Rat(-10)) THEN <<Recommendation("weak_weekend", "-")>>
    ELSE <<>>

BestDayRule(patterns) ==
    IF patterns.defined
    THEN <<Recommendation("highlight_best_day", patterns.best_day.name)>>
    ELSE <<>>

\* 2. the top product
ProductRule(top_product) ==
    IF top_product # "-" THEN <<Recommendation("stock_top_product", top_product)>> ELSE <<>>

\* 3. the trend of the last 7 rows against the first 7 rows, from 14 rows on
TrendRule(sales_df) ==
    IF Len(sales_df) < 14 THEN <<>>
    ELSE LET recent_sales == Mean(TailN(SalesOf(sales_df), 7))
             older_sales == Mean(SubSeq(SalesOf(sales_df), 1, 7))
         IN  IF ~RLess(Zero, older_sales) THEN <<>>
             ELSE LET trend == RMul(RDiv(RSub(recent_sales, older_sales), older_sales), Rat(100))
                  IN  IF RLess(Rat(10), trend) THEN <<Recommendation("growth_trend", "-")>>
                      ELSE IF RLess(trend, Rat(-10)) THEN <<Recommendation("decline_trend", "-")>>
                      ELSE <<>>

\* 4. the margin, when the frame has rows and an expenses column
MarginRule(sales_df, has_expenses) ==
    IF sales_df = <<>> \/ ~has_expenses THEN <<>>
    ELSE LET avg_margin == Mean([k \in 1..Len(sales_df) |->
                                   RSub(sales_df[k].total_sales, sales_df[k].total_expenses)])
             avg_sales == Mean(SalesOf(sales_df))
             margin_pct == IF RLess(Zero, avg_sales)
                           THEN RMul(RDiv(avg_margin, avg_sales), Rat(100))
                           ELSE Zero
         IN  IF RLess(margin_pct, Rat(30)) THEN <<Recommendation("low_margin", "-")>>
             ELSE IF RLess(Rat(50), margin_pct) THEN <<Recommendation("high_margin", "-")>>
             ELSE <<>>

DefaultRuleAlways(recommendations) == <<Recommendation("insufficient_signal", "-")>>

\* "if not recommendations: recommendations.append(...)"
DefaultRule(recommendations) ==
    IF recommendations = <<>> THEN <<Recommendation("insufficient_signal", "-")>> ELSE <<>>

PrependRule(recommendations, entries) == entries \o recommendations

\* recommendations.append for the entry of a rule, if it has one
AppendRule(recommendations, entries) == recommendations \o entries

\* generate_recommendations
GenerateRecommendationsList(sales_df, has_expenses, patterns, top_product) ==
    LET r1 == AppendRule(<<>>, WeekendRule(patterns))
        r2 == AppendRule(r1, BestDayRule(patterns))
        r3 == AppendRule(r2, ProductRule(top_product))
        r4 == AppendRule(r3, TrendRule(sales_df))
        r5 == AppendRule(r4, MarginRule(sales_df, has_expenses))
    IN  AppendRule(r5, DefaultRule(r5))

\* generate_recommendations_report, step by step
SeasonalStep ==
    /\ report.pc = "idle"
    /\ report' = [report EXCEPT !.patterns = AnalyzeSeasonalPatterns(series), !.pc = "products"]
    /\ UNCHANGED <<series, req, anom, interval, training, full, feat>>

ProductsStep ==
    /\ report.pc = "products"
    /\ \E top \in TopProducts : report' = [report EXCEPT !.top_product = top, !.pc = "recommend"]
    /\ UNCHANGED <<series, req, anom, interval, training, full, feat>>

GenerateRecommendations ==
    /\ report.pc = "recommend"
    /\ report' = [report EXCEPT
                     !.recommendations = GenerateRecommendationsList(series, report.has_expenses,
                                                                     report.patterns, report.top_product),
                     !.pc = "done"]
    /\ UNCHANGED <<series, req, anom, interval, training, full, feat>>

\* a second invocation on the same inputs
GenerateRecommendationsAgain ==
    /\ report.pc = "done"
    /\ report' = [report EXCEPT
                     !.again = GenerateRecommendationsList(series, report.has_expenses,
                                                           report.patterns, report.top_product),
                     !.pc = "repeated"]
    /\ UNCHANGED <<series, req, anom, interval, training, full, feat>>

InitReport ==
    /\ series \in UNION { ReportFrames(n) : n \in 0..MaxReportLen }
    /\ req = [r \in Requests |-> IdleReq]
    /\ anom = IdleAnom
    /\ interval = IdleInterval
    /\ report \in { [IdleReport EXCEPT !.has_expenses = b] : b \in BOOLEAN }
    /\ training = IdleTraining
    /\ full = IdleFull
    /\ feat = IdleFeat

NextReport == SeasonalStep \/ ProductsStep \/ GenerateRecommendations \/ GenerateRecommendationsAgain

SpecReport == InitReport /\ [][NextReport]_vars

\* the rule of the table a recommendation kind belongs to, in the order of the table
RuleOf(kind) ==
    CASE kind \in {"high_weekend_demand", "weak_weekend"} -> 1
      [] kind = "highlight_best_day" -> 2
      [] kind = "stock_top_product" -> 3
      [] kind \in {"growth_trend", "decline_trend"} -> 4
      [] kind \in {"low_margin", "high_margin"} -> 5
      [] OTHER -> 6

KindsOf(recommendations) == { recommendations[k].kind : k \in 1..Len(recommendations) }

ReportDone == report.pc \in {"done", "repeated"}

SumSales(lo, hi) == SumTo([k \in 1..Len(series) |-> IF k >= lo /\ k <= hi THEN SalesInt(k) ELSE 0],
                          Len(series))
SumExpenses == SumTo([k \in 1..Len(series) |-> series[k].total_expenses[1]], Len(series))

\* some rule of the table fires on the inputs of the report
SomeRuleFires ==
    \/ report.patterns.defined
    \/ report.top_product # "-"
    \/ KindsOf(TrendRule(series)) # {}
    \/ KindsOf(MarginRule(series, report.has_expenses)) # {}

\* C17: the list is never empty; the default recommendation is in it iff no rule of
\* the table fires, and then it is its only element.
C17_DefaultIffNoRuleFires ==
    ReportDone =>
        /\ report.recommendations # <<>>
        /\ "insufficient_signal" \in KindsOf(report.recommendations) <=> ~SomeRuleFires
        /\ "insufficient_signal" \in KindsOf(report.recommendations)
              => report.recommendations = <<Recommendation("insufficient_signal", "-")>>
        /\ SomeRuleFires =>
              \E k \in 1..Len(report.recommendations) : RuleOf(report.recommendations[k].kind) < 6

\* the default recommendation was emitted on an empty series without product data
C17_Witness ==
    /\ ReportDone
    /\ series = <<>>
    /\ report.top_product = "-"
    /\ report.recommendations = <<Recommendation("insufficient_signal", "-")>>

\* C18: with n >= 14 days, recent = sum of the last 7 days and prior = sum of the 7
\* days immediately before them, growth_trend is emitted iff recent exceeds prior
\* by more than 10% and decline_trend iff it is below prior by more than 10%.
C18_TrendOfAdjacentWeeks ==
    (ReportDone /\ Len(series) >= 14) =>
        LET n == Len(series)
            recent == SumSales(n - 6, n)
            prior == SumSales(n - 13, n - 7)
        IN  /\ "growth_trend" \in KindsOf(report.recommendations)
                  <=> (prior > 0 /\ 10 * (recent - prior) > prior)
            /\ "decline_trend" \in KindsOf(report.recommendations)
                  <=> (prior > 0 /\ 10 * (recent - prior) < -prior)

\* C19: with margin_pct = (sales - expenses) / sales * 100 over the totals,
\* low_margin is emitted iff the margin is defined and below 30, high_margin iff it
\* is defined and above 50; the margin is undefined without expenses or with total
\* sales 0.
C19_MarginRules ==
    ReportDone =>
        LET sales == SumSales(1, Len(series))
            defined == report.has_expenses /\ sales # 0
        IN  /\ "low_margin" \in KindsOf(report.recommendations)
                  <=> (defined /\ 100 * (sales - SumExpenses) < 30 * sales)
            /\ "high_margin" \in KindsOf(report.recommendations)
                  <=> (defined /\ 100 * (sales - SumExpenses) > 50 * sales)

IndexOfDay(name) == CHOOSE w \in 0..6 : DayName(w) = name

\* C20: on a non-empty series best_day is a weekday whose mean is >= the mean of
\* every weekday present, worst_day one whose mean is <= every other, and among the
\* weekdays tied for the maximum (minimum) the one of lowest index (Monday = 0).
C20_BestWorstDayTieBreak ==
    (report.pc # "idle" /\ series # <<>>) =>
        LET items == report.patterns.weekly_avg
            best == report.patterns.best_day
            worst == report.patterns.worst_day
        IN  /\ \A k \in 1..Len(items) :
                  /\ ~RLess(best.mean, items[k].mean)
                  /\ ~RLess(items[k].mean, worst.mean)
                  /\ items[k].mean = best.mean => IndexOfDay(best.name) <= IndexOfDay(items[k].name)
                  /\ items[k].mean = worst.mean => IndexOfDay(worst.name) <= IndexOfDay(items[k].name)
            /\ \E k \in 1..Len(items) : items[k] = best
            /\ \E k \in 1..Len(items) : items[k] = worst

(***************************************************************************)
(* The combined report of predict_custom.py: main with the prompt          *)
(* "full_report" calls generate_full_report, which builds the daily frame  *)
(* from the receipts with prepare_sales_df and writes its sections one     *)
(* after the other to one string; main prints the string, or the error     *)
(* page when anything raised.                                              *)
(***************************************************************************)
\* largest number of receipts in the data file
MaxReceipts == 3

\* the calendar days a receipt may carry: Friday to Monday
ReceiptDays == FirstDay..(FirstDay + 3)

\* the DailyReceipts table: receipts in any order, several of them on one day
ReceiptLists ==
    UNION { [1..n -> { [day |-> d, total_sales |-> Rat(v)] : d \in ReceiptDays, v \in SalesValues }] :
              n \in 0..MaxReceipts }

\* a frame with the row inserted after the rows of the same or an earlier day
InsertByDay(sorted, row) ==
    LET before == SelectSeq(sorted, LAMBDA r : r.day <= row.day)
        after == SelectSeq(sorted, LAMBDA r : r.day > row.day)
    IN  before \o <<row>> \o after

\* df.set_index('day').sort_index(): the receipts ordered by day, one row per receipt
RECURSIVE SortByDay(_)
SortByDay(receipts) ==
    IF receipts = <<>> THEN <<>>
    ELSE InsertByDay(SortByDay(SubSeq(receipts, 1, Len(receipts) - 1)), receipts[Len(receipts)])

\* prepare_sales_df
PrepareSalesDfFrame(receipts) == SortByDay(receipts)

\* a section written to the report string
Section(name) == [name |-> name, status |-> "ok"]

\* sales_df = prepare_sales_df(data); an empty frame ends the report at once
PrepareSalesDf ==
    /\ full.pc = "start"
    /\ series' = PrepareSalesDfFrame(full.receipts)
    /\ full' = IF full.receipts = <<>>
               THEN [full EXCEPT !.pc = "printed", !.output = "no_data"]
               ELSE [full EXCEPT !.pc = "forecast"]
    /\ UNCHANGED <<req, anom, interval, report, training, feat>>

\* section 1: with the model loaded, forecast_with_lightgbm reads metadata.get(...),
\* which raises when the metadata file does not hold a JSON object
ForecastSection ==
    /\ full.pc = "forecast"
    /\ full' = IF LightgbmLoaded(full.files) /\ full.malformed_metadata
               THEN [full EXCEPT !.pc = "raised"]
               ELSE [full EXCEPT !.sections = Append(@, Section("forecast")), !.pc = "anomalies"]
    /\ UNCHANGED <<series, req, anom, interval, report, training, feat>>

\* section 2: detect_anomalies(sales_df, threshold=2.0)
AnomaliesSection ==
    /\ full.pc = "anomalies"
    /\ full' = [full EXCEPT !.anomalies = DetectAnomaliesCustom(series, Rat(2)),
                            !.sections = Append(@, Section("anomalies")), !.pc = "seasonal"]
    /\ UNCHANGED <<series, req, anom, interval, report, training, feat>>

\* section 3: analyze_seasonal_patterns(sales_df)
SeasonalSection ==
    /\ full.pc = "seasonal"
    /\ full' = [full EXCEPT !.patterns = AnalyzeSeasonalPatterns(series),
                            !.sections = Append(@, Section("seasonal")), !.pc = "products"]
    /\ UNCHANGED <<series, req, anom, interval, report, training, feat>>

\* section 4: analyze_products(data) converts the fields of every order item with
\* int() and float(), which raise on an item that does not hold numbers
ProductsSection ==
    /\ full.pc = "products"
    /\ IF full.malformed_items
       THEN full' = [full EXCEPT !.pc = "raised"]
       ELSE \E top \in TopProducts :
               full' = [full EXCEPT !.top_product = top,
                                    !.sections = Append(@, Section("products")),
                                    !.pc = "recommendations"]
    /\ UNCHANGED <<series, req, anom, interval, report, training, feat>>

\* section 5: generate_recommendations(data, sales_df, patterns, products)
RecommendationsSection ==
    /\ full.pc = "recommendations"
    /\ full' = [full EXCEPT
                   !.recommendations = GenerateRecommendationsList(series, FALSE, full.patterns,
                                                                   full.top_product),
                   !.sections = Append(@, Section("recommendations")), !.pc = "summary"]
    /\ UNCHANGED <<series, req, anom, interval, report, training, feat>>

\* section 6, the summary statistics, and print(generate_full_report(data))
PrintReport ==
    /\ full.pc = "summary"
    /\ full' = [full EXCEPT !.sections = Append(@, Section("summary")),
                            !.output = "report", !.pc = "printed"]
    /\ UNCHANGED <<series, req, anom, interval, report, training, feat>>

\* "except Exception as e" of main: the report string built so far is lost and the
\* error page with the traceback is printed instead
MainCatch ==
    /\ full.pc = "raised"
    /\ full' = [full EXCEPT !.sections = <<>>, !.output = "error", !.pc = "printed"]
    /\ UNCHANGED <<series, req, anom, interval, report, training, feat>>

InitFull ==
    /\ series = <<>>
    /\ req = [r \in Requests |-> IdleReq]
    /\ anom = IdleAnom
    /\ interval = IdleInterval
    /\ report = IdleReport
    /\ training = IdleTraining
    /\ full \in { [IdleFull EXCEPT !.pc = "start", !.receipts = rc, !.files = f,
                                   !.malformed_metadata = mm, !.malformed_items = mi] :
                    rc \in ReceiptLists, f \in {{}, {"lightgbm_pkl", "lightgbm_meta"}},
                    mm \in BOOLEAN, mi \in BOOLEAN }
    /\ feat = IdleFeat

NextFull ==
    \/ PrepareSalesDf
    \/ ForecastSection
    \/ AnomaliesSection
    \/ SeasonalSection
    \/ ProductsSection
    \/ RecommendationsSection
    \/ PrintReport
    \/ MainCatch

SpecFull == InitFull /\ [][NextFull]_vars

\* sums and counts of the rows of the frame that fall on the given weekdays
CountOn(days) == Cardinality({ k \in 1..Len(series) : Weekday(series[k].day) \in days })
SumOn(days) ==
    SumTo([k \in 1..Len(series) |-> IF Weekday(series[k].day) \in days THEN SalesInt(k) ELSE 0],
          Len(series))

\* the seasonal section of the combined report has been computed on a non-empty frame
SeasonalDone == full.pc \in {"products", "recommendations", "summary"} /\ series # <<>>

\* C21: weekend_avg and weekday_avg being the mean sales of the Friday/Saturday rows
\* and of the other rows (0 when there is no such row), weekend_boost_pct is
\* (weekend_avg - weekday_avg) / weekday_avg * 100 whenever weekday_avg is non-zero
\* and 0 whenever weekday_avg is 0; on a series of constant value it is 0.
C21_WeekendBoost ==
    SeasonalDone =>
        LET p == full.patterns
            nd == CountOn((0..6) \ {4, 5})
            nw == CountOn({4, 5})
        IN  /\ p.weekday_avg = (IF nd = 0 THEN Zero ELSE Norm(SumOn((0..6) \ {4, 5}), nd))
            /\ p.weekend_avg = (IF nw = 0 THEN Zero ELSE Norm(SumOn({4, 5}), nw))
            /\ p.weekday_avg # Zero =>
                  p.weekend_boost =
                      RMul(RDiv(RSub(p.weekend_avg, p.weekday_avg), p.weekday_avg), Rat(100))
            /\ p.weekday_avg = Zero => p.weekend_boost = Zero
            /\ AllIdentical => p.weekend_boost = Zero

\* a section of the combined report raises on the inputs of the run
Raises(name) ==
    \/ name = "forecast" /\ LightgbmLoaded(full.files) /\ full.malformed_metadata
    \/ name = "products" /\ full.malformed_items

\* C22: in the printed combined report every section that raises is replaced by an
\* "unavailable" placeholder and every section that does not raise appears.
C22_SectionFailuresIsolated ==
    (full.pc = "printed" /\ full.output # "no_data") =>
        \A name \in {"forecast", "anomalies", "seasonal", "products"} :
            \E k \in 1..Len(full.sections) :
                /\ full.sections[k].name = name
                /\ full.sections[k].status = (IF Raises(name) THEN "unavailable" ELSE "ok")

\* C30: the daily series the analytics run on has strictly increasing dates, with no
\* duplicate date, whatever the order of the receipts and however many of them fall
\* on one calendar day.
C30_SeriesDatesStrictlyIncreasing ==
    full.pc \notin {"idle", "start"} =>
        \A i, j \in 1..Len(series) : i < j => series[i].day < series[j].day

(***************************************************************************)
(* Claims about the minimum amount of data of an operation.                *)
(***************************************************************************)
\* C23: a training run on fewer than 10 records ends without a crash, having fitted
\* nothing, evaluated nothing and written no model artifact, and an anomaly
\* detection on fewer than 5 records returns no anomaly.
C23_InsufficientDataOutcome ==
    /\ (training.pc # "idle" /\ training.n < 10) =>
          /\ training.pc = "done"
          /\ training.artifacts = {}
          /\ training.fitted_on = {}
          /\ training.folds = <<>>
          /\ training.results = <<>>
    /\ (anom.customRun /\ Len(series) < 5) => anom.custom = <<>>
    /\ (anom.legacyRun /\ Len(series) < 5) => anom.legacy = <<>>

(***************************************************************************)
(* Feature builders of the training side: load_and_prepare_data of         *)
(* scripts/train_lightgbm.py, load_latest_data of                          *)
(* scripts/daily_predictions.py and engineer_features of                   *)
(* Dataset-creat/pipeline_json.py, applied to the daily data set (one row  *)
(* per day, ascending).  A float that is not a rational has denominator 0: *)
(* NaN is 0/0, the infinities are 1/0 and -1/0.                            *)
(***************************************************************************)
\* longest data set handed to a feature builder
FeatMaxLen == 8

NaN == <<0, 0>>
PosInf == <<1, 0>>
NegInf == <<-1, 0>>

\* Series.shift(k): the value k rows earlier, NaN in the first k rows
Shift(values, k) == [t \in 1..Len(values) |-> IF t > k THEN values[t - k] ELSE NaN]

\* Series.pct_change(periods=k): values[t] / values[t-k] - 1 in float arithmetic;
\* x / 0 is +-inf for x # 0 and NaN for x = 0
PctChange(values, k) ==
    [t \in 1..Len(values) |->
        IF t <= k THEN NaN
        ELSE LET prev == values[t - k]
                 cur == values[t]
             IN  IF prev # Zero THEN RDiv(RSub(cur, prev), prev)
                 ELSE IF cur = Zero THEN NaN
                 ELSE IF RLess(Zero, cur) THEN PosInf ELSE NegInf]

\* Series.fillna(v): only NaN is filled, an infinity is kept
FillNa(column, v) == [t \in 1..Len(column) |-> IF column[t] = NaN THEN v ELSE column[t]]

\* Series.rolling(w, min_periods=1).mean()
RollingMean(values, w) == [t \in 1..Len(values) |-> Mean(TailN(SubSeq(values, 1, t), w))]

\* the columns a frame of lag features carries beside day and total_sales
LagColumns ==
    {"day_of_week", "day_of_month", "month", "is_weekend", "sales_lag_1", "sales_lag_2",
     "sales_lag_3", "sales_rolling_3", "sales_rolling_7", "sales_trend"}

\* DataFrame.dropna(): the rows without a NaN in any column
Dropna(rows, columns) == SelectSeq(rows, LAMBDA r : \A c \in columns : r[c] # NaN)

\* is_weekend of train_lightgbm.load_and_prepare_data: day_of_week >= 5
IsWeekendTrainLgb(d) == IF Weekday(d) >= 5 THEN 1 ELSE 0

\* is_weekend of pipeline_json.engineer_features and of train_regression: isin([4, 5])
IsWeekendPipeline(d) == IF Weekday(d) \in {4, 5} THEN 1 ELSE 0

\* is_weekend of analyze_seasonal_patterns: isin([4, 5])
IsWeekendSeasonal(d) == IF Weekday(d) \in {4, 5} THEN 1 ELSE 0

\* the feature engineering shared by load_and_prepare_data and load_latest_data, up
\* to the dropna
LagFeatureFrame(df, is_weekend) ==
    LET sales == SalesOf(df)
        trend == FillNa(PctChange(sales, 3), Zero)
    IN  [t \in 1..Len(df) |->
            [day |-> df[t].day,
             total_sales |-> sales[t],
             day_of_week |-> Rat(Weekday(df[t].day)),
             day_of_month |-> Rat(DayOfMonth(df[t].day)),
             month |-> Rat(MonthOf(df[t].day)),
             is_weekend |-> Rat(is_weekend[t]),
             sales_lag_1 |-> Shift(sales, 1)[t],
             sales_lag_2 |-> Shift(sales, 2)[t],
             sales_lag_3 |-> Shift(sales, 3)[t],
             sales_rolling_3 |-> RollingMean(sales, 3)[t],
             sales_rolling_7 |-> RollingMean(sales, 7)[t],
             sales_trend |-> trend[t]]]

\* train_lightgbm.load_and_prepare_data
LoadAndPrepareDataFrame(df) == Dropna(LagFeatureFrame(df, [t \in 1..Len(df) |-> IsWeekendTrainLgb(df[t].day)]), LagColumns)

\* daily_predictions.load_latest_data
LoadLatestDataFrame(df) == Dropna(LagFeatureFrame(df, [t \in 1..Len(df) |-> IsWeekendDaily(df[t].day)]), LagColumns)

\* pipeline_json.engineer_features: every lag is filled with 0 and no row is dropped
EngineerFeaturesFrame(df) ==
    LET sales == SalesOf(df)
    IN  [t \in 1..Len(df) |->
            [day |-> df[t].day,
             total_sales |-> sales[t],
             rolling_7d_sales_avg |-> RollingMean(sales, 7)[t],
             rolling_30d_sales_avg |-> RollingMean(sales, 30)[t],
             sales_growth_rate |-> FillNa(PctChange(sales, 1), Zero)[t],
             lag_1_sales |-> FillNa(Shift(sales, 1), Zero)[t],
             lag_7_sales |-> FillNa(Shift(sales, 7), Zero)[t],
             day_of_week |-> Rat(Weekday(df[t].day)),
             is_weekend |-> Rat(IsWeekendPipeline(df[t].day))]]

LoadAndPrepareData ==
    /\ feat.pc = "idle"
    /\ feat' = [feat EXCEPT !.script = "train_lightgbm", !.rows = LoadAndPrepareDataFrame(series),
                            !.pc = "done"]
    /\ UNCHANGED <<series, req, anom, interval, report, training, full>>

LoadLatestData ==
    /\ feat.pc = "idle"
    /\ feat' = [feat EXCEPT !.script = "daily_predictions", !.rows = LoadLatestDataFrame(series),
                            !.pc = "done"]
    /\ UNCHANGED <<series, req, anom, interval, report, training, full>>

EngineerFeatures ==
    /\ feat.pc = "idle"
    /\ feat' = [feat EXCEPT !.script = "pipeline_json", !.rows = EngineerFeaturesFrame(series),
                            !.pc = "done"]
    /\ UNCHANGED <<series, req, anom, interval, report, training, full>>

InitFeatures ==
    /\ series \in UNION { Histories(n) : n \in 1..FeatMaxLen }
    /\ req = [r \in Requests |-> IdleReq]
    /\ anom = IdleAnom
    /\ interval = IdleInterval
    /\ report = IdleReport
    /\ training = IdleTraining
    /\ full = IdleFull
    /\ feat = IdleFeat

NextFeatures == LoadAndPrepareData \/ LoadLatestData \/ EngineerFeatures

SpecFeatures == InitFeatures /\ [][NextFeatures]_vars

\* the lag columns of the frame a script builds
LagsOf(script) ==
    IF script = "pipeline_json" THEN {"lag_1_sales", "lag_7_sales"}
    ELSE {"sales_lag_1", "sales_lag_2", "sales_lag_3"}

\* C24: on an ascending, duplicate-free daily series the feature builder returns one
\* feature row per input day, in the same order, no day dropped, and every lag of
\* every row, those of the first three days included, holds a value (the fallback)
\* and not an undefined one.
C24_OneFeatureRowPerDay ==
    feat.pc = "done" =>
        /\ Len(feat.rows) = Len(series)
        /\ \A k \in 1..Len(feat.rows) :
              /\ k <= Len(series) => feat.rows[k].day = series[k].day
              /\ \A c \in LagsOf(feat.script) : feat.rows[k][c] # NaN

\* C25: the trend feature of day t is (value[t] - value[t-3]) / value[t-3], and 0
\* whenever value[t-3] = 0 or t < 3 (counting from 0), so it is finite in every row.
C25_TrendFiniteOrZero ==
    (feat.pc = "done" /\ feat.script \in {"train_lightgbm", "daily_predictions"}) =>
        \A k \in 1..Len(feat.rows) :
            LET t == feat.rows[k].day - FirstDay + 1
                trend == feat.rows[k].sales_trend
            IN  /\ trend[2] # 0
                /\ trend = IF t > 3 /\ series[t - 3].total_sales # Zero
                           THEN RDiv(RSub(series[t].total_sales, series[t - 3].total_sales),
                                     series[t - 3].total_sales)
                           ELSE Zero

\* C29: for every date the is_weekend value of the features a model is trained on
\* equals the is_weekend value of the features the same model predicts from
\* (LightGBM: forecast_with_lightgbm and generate_predictions; regression:
\* forecast_next_days) and the weekend membership of the seasonal analysis.
C29_WeekendDefinitionShared ==
    feat.pc = "done" =>
        \A k \in 1..Len(feat.rows) :
            LET d == feat.rows[k].day
                trained == feat.rows[k].is_weekend
            IN  /\ trained = Rat(IsWeekendSeasonal(d))
                /\ feat.script = "train_lightgbm" =>
                      trained = Rat(IsWeekendLgb(d)) /\ trained = Rat(IsWeekendDaily(d))
                /\ feat.script = "pipeline_json" => trained = Rat(IsWeekendReg(d))

(***************************************************************************)
(* Claims about the dispersion of the confidence interval.                 *)
(***************************************************************************)
\* the multiplier the claim names for a confidence level
ClaimedZ(confidence) == IF confidence = "0.95" THEN <<196, 100>> ELSE <<1645, 1000>>

\* C26: the dispersion behind the margin is the supplied standard deviation when one
\* is given, otherwise the standard deviation of the predictions when there are at
\* least two, otherwise 15% of the single prediction; the margin is 1.96 times the
\* dispersion for confidence 0.95 and 1.645 times for confidence 0.90.
C26_DispersionOrderAndMargin ==
    interval.run =>
        LET p == interval.predictions
            z == ClaimedZ(interval.confidence)
            ratio == RMul(z, z)
        IN  /\ interval.historical_std # NoStd =>
                  RMul(interval.margin, Rat(z[2])) = RMul(Rat(z[1]), interval.historical_std)
            /\ (interval.historical_std = NoStd /\ Len(p) >= 2) =>
                  /\ RLeq(Zero, interval.margin)
                  /\ RMul(interval.margin, interval.margin) = RMul(ratio, PopulationVariance(p))
            /\ (interval.historical_std = NoStd /\ Len(p) = 1) =>
                  RMul(interval.margin, Rat(100 * z[2])) = RMul(Rat(15 * z[1]), p[1])

\* a margin at confidence 0.90 computed from the spread of two or more predictions
C26_Witness ==
    /\ interval.run
    /\ interval.confidence = "0.90"
    /\ interval.historical_std = NoStd
    /\ Len(interval.predictions) >= 2
    /\ RLess(Zero, interval.margin)

(***************************************************************************)
(* The anomaly detectors on series that hold one day of 500 around a mean  *)
(* of 100.                                                                 *)
(***************************************************************************)
\* longest series of the scenario
SpikeMaxLen == 6

\* the value n - 1 equal days take beside one day of 500 for the mean to be 100
EqualOther(n) == Norm(100 * n - 500, n - 1)

\* series of n consecutive days over 0, 100, 500 and EqualOther(n)
SpikeHistories(n) ==
    { [k \in 1..n |-> [day |-> FirstDay + k - 1, total_sales |-> f[k]]] :
        f \in [1..n -> {Zero, Rat(100), Rat(500), EqualOther(n)}] }

InitSpike ==
    /\ series \in UNION { SpikeHistories(n) : n \in 5..SpikeMaxLen }
    /\ req = [r \in Requests |-> IdleReq]
    /\ anom = IdleAnom
    /\ interval = IdleInterval
    /\ report = IdleReport
    /\ training = IdleTraining
    /\ full = IdleFull
    /\ feat = IdleFeat

SpecSpike == InitSpike /\ [][NextAnomaly]_vars

\* the mean of the series is 100 and day k is its only day of 500
OnlySpikeAt(k) ==
    /\ Mean(SalesOf(series)) = Rat(100)
    /\ series[k].total_sales = Rat(500)
    /\ \A j \in 1..Len(series) : j # k => series[j].total_sales # Rat(500)

\* the detector returned day k as a spike with a z-score above 2.0
FlaggedAsSpike(k) ==
    \E j \in 1..Len(anom.custom) :
        /\ anom.custom[j].day = series[k].day
        /\ anom.custom[j].direction = "spike"
        /\ RLess(Rat(4), anom.custom[j].z_sq)

BuilderOutput(q) ==
    LET i == Len(q.predictions)
    IN  IF q.entry = "daily"
        THEN [f \in LastRowNames |->
                IF f \in CalendarNames THEN DailyFeatures(series, q.features, i)[f]
                ELSE LastRow(series)[f]]
        ELSE LgbFeatureValues(series, SubSeq(q.predictions, 1, i - 1), i - 1)

\* C28: the vector handed to the backend has as many entries as the persisted
\* feature-name list, and its entry at every position j is the value of the feature
\* the list names at position j.
C28_VectorFollowsPersistedNames ==
    \A r \in Requests :
        LET q == req[r]
            built == BuilderOutput(q)
        IN  (Recorded(q) /\ q.entry \in {"forecast_only", "daily"}) =>
                /\ Len(q.X) = Len(q.features)
                /\ \A j \in 1..Len(q.features) :
                        /\ q.features[j] \in DOMAIN built
                        /\ q.X[j] = built[q.features[j]]

====
